---------------------------- MODULE Spec2Model ----------------------------
(* A model of src/src/App.jsx: the artwork viewer with its ban list.        *)
(*                                                                          *)
(* Strings are sequences of one-character strings, so that trimming and     *)
(* emptiness are computed and not assumed.  An optional JavaScript value    *)
(* (a field that may be undefined or null) is a sequence of length at most  *)
(* one: << >> when the value is missing, << v >> when it is v.              *)
EXTENDS Naturals, Sequences, FiniteSets, TLC

VARIABLES
    apiKey,     \* whether import.meta.env.VITE_HAM_API_KEY is set
    inputs,     \* the displayed artwork (useState, line 10)
    bans,       \* the ban list (useState, line 21): attribute name -> set of strings
    loading,    \* useState(false), line 28
    error,      \* useState(""), line 29
    inflight,   \* the pending axios.get calls: the bans each fetchArtwork closure holds
    last        \* the handler that ran last, with its arguments and locals

vars == <<apiKey, inputs, bans, loading, error, inflight, last>>

----------------------------------------------------------------------------
(* Bounds *)

\* the longest records array a response carries
MaxBatch == 2

----------------------------------------------------------------------------
(* JavaScript values *)

None == << >>
Some(v) == << v >>

\* the empty string
Empty == << >>
\* the sentinel "N/A"
NA == << "N", "/", "A" >>

Attrs == { "Artist", "Culture", "Century" }

\* a string s is truthy when it is present and not ""
Truthy(o) == o # None /\ o[1] # Empty

RECURSIVE TrimLeft(_)
TrimLeft(s) ==
    IF s # Empty /\ Head(s) = " " THEN TrimLeft(Tail(s)) ELSE s

RECURSIVE TrimRight(_)
TrimRight(s) ==
    IF s # Empty /\ s[Len(s)] = " " THEN TrimRight(SubSeq(s, 1, Len(s) - 1)) ELSE s

\* String.prototype.trim
Trim(s) == TrimRight(TrimLeft(s))

\* safe without the trim: the string as it came
safeNoTrim(o) ==
    IF Truthy(o) /\ Trim(o[1]) # Empty THEN o[1] ELSE NA

\* const safe = (s) => (s && String(s).trim()) || "N/A"
safe(o) ==
    IF Truthy(o) /\ Trim(o[1]) # Empty THEN Trim(o[1]) ELSE NA

\* r?.people?.[0]?.name
FirstName(r) ==
    IF r.people = None THEN None
    ELSE IF r.people[1] = << >> THEN None
    ELSE r.people[1][1].name

\* const artistOf = (r) => safe(r?.people?.[0]?.name)
artistOf(r) == safe(FirstName(r))

\* x || "N/A"
OrNA(o) == IF Truthy(o) THEN o[1] ELSE NA

\* x || ""
OrEmpty(o) == IF Truthy(o) THEN o[1] ELSE Empty

\* the object given to setInputs for the picked record
Display(pick) ==
    [ Title   |-> OrNA(pick.title),
      Artist  |-> artistOf(pick),
      Culture |-> safe(pick.culture),
      Century |-> safe(pick.century),
      Date    |-> OrNA(pick.dated),
      Medium  |-> OrNA(pick.medium),
      Image   |-> OrEmpty(pick.primaryimageurl) ]

\* useState({Title: "", ...})
NoArtwork ==
    [ Title |-> Empty, Artist |-> Empty, Culture |-> Empty, Century |-> Empty,
      Date |-> Empty, Medium |-> Empty, Image |-> Empty ]

\* useState({Artist: new Set(), Culture: new Set(), Century: new Set()})
NoBans == [ a \in Attrs |-> {} ]

----------------------------------------------------------------------------
(* Ban management *)

\* prev[attr], and new Set(undefined) is the empty set
SetOf(b, attr) == IF attr \in DOMAIN b THEN b[attr] ELSE {}

\* the spread of prev forgotten: { [attr]: s }
WithKeyOnly(b, attr, s) == [ k \in { attr } |-> s ]

\* { ...prev, [attr]: s }
WithKey(b, attr, s) ==
    [ k \in DOMAIN b \cup { attr } |-> IF k = attr THEN s ELSE b[k] ]

\* addBan without its guard
addBanUnguarded(b, attr, value) ==
    WithKey(b, attr, SetOf(b, attr) \cup { value })

addBan(b, attr, value) ==
    IF value = Empty \/ value = NA THEN b
    ELSE WithKey(b, attr, SetOf(b, attr) \cup { value })

\* a chip click that toggles: an absent value is put back
removeBanToggle(b, attr, value) ==
    IF value \in SetOf(b, attr)
    THEN WithKey(b, attr, SetOf(b, attr) \ { value })
    ELSE WithKey(b, attr, SetOf(b, attr) \cup { value })

removeBan(b, attr, value) ==
    WithKey(b, attr, SetOf(b, attr) \ { value })

\* a clearing that forgets the centuries
clearBansPartial == [ Artist |-> {}, Culture |-> {}, Century |-> bans.Century ]

\* the Clear Bans button's setBans
clearBans == [ Artist |-> {}, Culture |-> {}, Century |-> {} ]

----------------------------------------------------------------------------
(* Selection *)

\* the filter without its third check
KeepsNoCentury(b, r) ==
    /\ artistOf(r) \notin b.Artist
    /\ safe(r.culture) \notin b.Culture

\* the filter dropping a record only when all three of its values are banned
KeepsUnlessAll(b, r) ==
    \/ artistOf(r) \notin b.Artist
    \/ safe(r.culture) \notin b.Culture
    \/ safe(r.century) \notin b.Century

\* the predicate of artworks.filter
Keeps(b, r) ==
    /\ artistOf(r) \notin b.Artist
    /\ safe(r.culture) \notin b.Culture
    /\ safe(r.century) \notin b.Century

\* artworks.filter(...)
eligible(artworks, b) == SelectSeq(artworks, LAMBDA r : Keeps(b, r))

\* response?.data?.records || []
RecordsOf(resp) == IF resp = None THEN << >> ELSE resp[1]

\* the two texts given to setError (the second one in plain ASCII)
EmptyMsg == "Nothing found that avoids your ban list. Try clearing some bans."
FetchMsg == "Couldn't fetch artwork--try again."


----------------------------------------------------------------------------
(* The catalog: what a response of the search endpoint may carry *)

Str(c) == << c >>

\* the record of the specification's scenario, all fields present
Vase ==
    [ title |-> Some(Str("V")), people |-> Some(<< [ name |-> Some(Str("U")) ] >>),
      culture |-> Some(Str("G")), century |-> Some(Str("5")),
      dated |-> Some(Str("d")), medium |-> Some(Str("c")),
      primaryimageurl |-> Some(Str("u")) ]

\* no people, no culture, a blank title, no image
Coin ==
    [ title |-> Some(Str(" ")), people |-> None,
      culture |-> None, century |-> Some(Str("5")),
      dated |-> None, medium |-> Some(Empty),
      primaryimageurl |-> None ]

\* an empty people list, a padded culture, a blank century
Urn ==
    [ title |-> Some(Str("T")), people |-> Some(<< >>),
      culture |-> Some(<< " ", "R" >>), century |-> Some(Str(" ")),
      dated |-> Some(Str("d")), medium |-> None,
      primaryimageurl |-> Some(Empty) ]

\* two contributors, the first one the Vase's
Bust ==
    [ title |-> None, people |-> Some(<< [ name |-> Some(Str("U")) ],
                                         [ name |-> Some(Str("W")) ] >>),
      culture |-> Some(Str("R")), century |-> Some(Str("5")),
      dated |-> Some(Str(" ")), medium |-> Some(Str("c")),
      primaryimageurl |-> Some(Str("u")) ]

Catalog == { Vase, Coin, Urn, Bust }

Batches == UNION { [ 1..n -> Catalog ] : n \in 0..MaxBatch }

\* response?.data?.records is missing, or an array
Responses == { None } \cup { Some(b) : b \in Batches }

----------------------------------------------------------------------------
(* The application *)

Init ==
    /\ apiKey \in BOOLEAN
    /\ inputs = NoArtwork
    /\ bans = NoBans
    /\ loading = FALSE
    /\ error = ""
    /\ inflight = << >>
    /\ last = [ op |-> "init" ]

\* the button without its disabled attribute
DiscoverAlways == TRUE

\* <button onClick={fetchArtwork} disabled={loading}>
DiscoverEnabled == ~loading

\* a filter reading the bans of the current state (a ref, not the closure)
FilterBansLive(closure, current) == current

\* the bans a fetchArtwork closure reads after its await: those of the render
\* that created the closure, not those of the state when the fetch resolves
FilterBans(closure, current) == closure

\* history: the handler that ran before a click on Discover, with the bans
\* it cleared when it was the Clear Bans button
Before == IF last.op = "clearBans" THEN last ELSE [ op |-> last.op ]

\* fetchArtwork up to its await.  A pending request holds the bans of its
\* closure, and "after", which is history the program does not read.
ClickDiscover ==
    /\ DiscoverEnabled
    /\ IF ~apiKey
       THEN /\ last' = [ op |-> "alert" ]
            /\ UNCHANGED << loading, error, inflight >>
       ELSE /\ loading' = TRUE
            /\ error' = ""
            /\ inflight' = Append(inflight, [ bans |-> bans, after |-> Before ])
            /\ last' = [ op |-> "discover", closure |-> bans, after |-> Before ]
    /\ UNCHANGED << apiKey, inputs, bans >>

Without(s, i) == SubSeq(s, 1, i - 1) \o SubSeq(s, i + 1, Len(s))

\* fetchArtwork after its await, the request having succeeded: filter, then
\* either the empty-result error or a random pick and setInputs
FetchResolved(i, resp) ==
    /\ i \in 1..Len(inflight)
    /\ LET artworks == RecordsOf(resp)
           el == eligible(artworks, FilterBans(inflight[i].bans, bans))
           done == [ op |-> "fetch", closure |-> inflight[i].bans,
                     after |-> inflight[i].after, live |-> bans,
                     resp |-> resp, eligible |-> el ]
       IN  IF Len(el) = 0
           THEN /\ error' = EmptyMsg
                /\ inputs' = inputs
                /\ last' = done @@
                           [ outcome |-> "empty", pick |-> None ]
           ELSE \E k \in 1..Len(el) :
                /\ inputs' = Display(el[k])
                /\ error' = error
                /\ last' = done @@
                           [ outcome |-> "shown", pick |-> Some(el[k]) ]
    /\ loading' = FALSE
    /\ inflight' = Without(inflight, i)
    /\ UNCHANGED << apiKey, bans >>

\* a catch block that also resets the displayed artwork
FetchRejectedClears(i) ==
    /\ i \in 1..Len(inflight)
    /\ error' = FetchMsg
    /\ loading' = FALSE
    /\ inputs' = NoArtwork
    /\ inflight' = SubSeq(inflight, 1, i - 1) \o SubSeq(inflight, i + 1, Len(inflight))
    /\ last' = [ op |-> "fetch", outcome |-> "failed", closure |-> inflight[i].bans,
                 after |-> inflight[i].after, live |-> bans ]
    /\ UNCHANGED << apiKey, bans >>

\* fetchArtwork after its await, the request having failed: the catch block
FetchRejected(i) ==
    /\ i \in 1..Len(inflight)
    /\ error' = FetchMsg
    /\ loading' = FALSE
    /\ inflight' = Without(inflight, i)
    /\ last' = [ op |-> "fetch", outcome |-> "failed", closure |-> inflight[i].bans,
                 after |-> inflight[i].after, live |-> bans ]
    /\ UNCHANGED << apiKey, inputs, bans >>

CallAddBan(attr, value) ==
    /\ bans' = addBan(bans, attr, value)
    /\ last' = [ op |-> "addBan", attr |-> attr, value |-> value, before |-> bans ]
    /\ UNCHANGED << apiKey, inputs, loading, error, inflight >>

CallRemoveBan(attr, value) ==
    /\ bans' = removeBan(bans, attr, value)
    /\ last' = [ op |-> "removeBan", attr |-> attr, value |-> value, before |-> bans ]
    /\ UNCHANGED << apiKey, inputs, loading, error, inflight >>

\* <KVC k="Artist" ... onClick={() => addBan("Artist", inputs.Artist)} />
ClickField(attr) == CallAddBan(attr, inputs[attr])

\* <Chip ... onRemove={() => removeBan("Artist", v)} />, one chip per banned value
ClickChip(attr, v) ==
    /\ v \in bans[attr]
    /\ CallRemoveBan(attr, v)

\* the Clear Bans button
ClickClearBans ==
    /\ bans' = clearBans
    /\ last' = [ op |-> "clearBans", before |-> bans ]
    /\ UNCHANGED << apiKey, inputs, loading, error, inflight >>

BannedValues == UNION { bans[a] : a \in Attrs }

Next ==
    \/ ClickDiscover
    \/ \E i \in 1..Len(inflight), resp \in Responses : FetchResolved(i, resp)
    \/ \E i \in 1..Len(inflight) : FetchRejected(i)
    \/ \E attr \in Attrs : ClickField(attr)
    \/ \E attr \in Attrs, v \in BannedValues : ClickChip(attr, v)
    \/ ClickClearBans

Spec == Init /\ [][Next]_vars

----------------------------------------------------------------------------
(* Ban management alone: addBan, removeBan and the clearing of the bans     *)
(* applied to arguments of every kind, the attribute names the interface    *)
(* never passes included.                                                   *)

AttrNames == Attrs \cup { "Medium" }

BanValues == { Empty, NA, Str("G"), Str("R") }

NextBans ==
    \/ \E attr \in AttrNames, value \in BanValues : CallAddBan(attr, value)
    \/ \E attr \in AttrNames, value \in BanValues : CallRemoveBan(attr, value)
    \/ ClickClearBans

SpecBans == Init /\ [][NextBans]_vars

----------------------------------------------------------------------------
(* Normalization alone: one fetch with no bans, resolved with a batch of    *)
(* one record, over every combination of field values.                      *)

\* a string field: missing, empty, blank, plain, padded, with an inner blank
Fields ==
    { None, Some(Empty), Some(Str(" ")), Some(Str("a")),
      Some(<< " ", "a", " " >>), Some(<< "a", " ", "b" >>) }

ShortFields == { None, Some(Empty), Some(Str(" ")), Some(<< "a", " " >>) }

Urls == { None, Some(Empty), Some(Str("u")) }

PeopleLists ==
    { None, Some(<< >>) }
      \cup { Some(<< [ name |-> n ] >>) : n \in Fields }
      \cup { Some(<< [ name |-> Some(Str("a")) ], [ name |-> Some(Str("b")) ] >>) }

RawRecords ==
    [ title : ShortFields, people : PeopleLists, culture : Fields,
      century : ShortFields, dated : ShortFields, medium : ShortFields,
      primaryimageurl : Urls ]

\* the state Spec reaches by one click on Discover with the key set
InitNormalize ==
    /\ apiKey = TRUE
    /\ inputs = NoArtwork
    /\ bans = NoBans
    /\ loading = TRUE
    /\ error = ""
    /\ inflight = << [ bans |-> NoBans, after |-> [ op |-> "init" ] ] >>
    /\ last = [ op |-> "discover", closure |-> NoBans, after |-> [ op |-> "init" ] ]

NextNormalize ==
    \E i \in 1..Len(inflight), r \in RawRecords : FetchResolved(i, Some(<< r >>))

SpecNormalize == InitNormalize /\ [][NextNormalize]_vars

----------------------------------------------------------------------------
(* Properties *)

\* the last handler was a fetch whose request succeeded
Resolved == last.op = "fetch" /\ last.outcome # "failed"

\* the last handler was a fetch that displayed a record
Shown == last.op = "fetch" /\ last.outcome = "shown"

\* the records of the last resolved response
Records == IF last.resp = None THEN << >> ELSE last.resp[1]

\* record r, as displayed, avoids the bans b
Avoids(b, r) ==
    /\ Display(r).Artist \notin b.Artist
    /\ Display(r).Culture \notin b.Culture
    /\ Display(r).Century \notin b.Century

\* C1: a record that a fetch displays is one of the records of its batch,
\* and its displayed artist, culture and century are in none of the three
\* ban sets the fetch was given.
C1_SelectedNotBanned ==
    Shown =>
        /\ \E i \in 1..Len(Records) : Records[i] = last.pick[1]
        /\ inputs = Display(last.pick[1])
        /\ inputs.Artist \notin last.closure.Artist
        /\ inputs.Culture \notin last.closure.Culture
        /\ inputs.Century \notin last.closure.Century

\* a record was displayed from a batch of which another record was banned
C1_Witness ==
    /\ Shown
    /\ Len(Records) = 2
    /\ \E i \in 1..Len(Records) : Display(Records[i]).Century \in last.closure.Century
    /\ \E i \in 1..Len(Records) : Display(Records[i]).Culture \in last.closure.Culture

\* C2: a resolved fetch ends in the empty-result error exactly when no
\* record of its batch avoids its bans (a missing or empty batch included),
\* and that error has the ban-list message, which is not the message of a
\* failed request.
C2_EmptyResultIffNoneEligible ==
    /\ Resolved =>
        /\ last.outcome = "empty" <=> (\A i \in 1..Len(Records) : ~Avoids(last.closure, Records[i]))
        /\ last.outcome = "empty" => error = EmptyMsg
        /\ last.outcome = "shown" => error # EmptyMsg
    /\ (last.op = "fetch" /\ last.outcome = "failed") => error = FetchMsg
    /\ EmptyMsg # FetchMsg

\* a batch of two records, each banned, ended in the empty-result error
C2_Witness ==
    /\ Resolved
    /\ last.outcome = "empty"
    /\ Len(Records) = 2
    /\ error = EmptyMsg

\* C3: no ban set ever holds "N/A" or the empty string, and a click that
\* calls addBan with either of them leaves the ban list as it was.
C3_SentinelNeverBanned ==
    /\ \A a \in Attrs : NA \notin bans[a] /\ Empty \notin bans[a]
    /\ (last.op = "addBan" /\ last.value \in { Empty, NA }) => bans = last.before

\* the displayed record has no culture, its culture was clicked, and the
\* bans, not empty, stayed as they were
C3_Witness ==
    /\ last.op = "addBan"
    /\ last.attr = "Culture"
    /\ last.value = NA
    /\ inputs.Culture = NA
    /\ bans # NoBans
    /\ bans = last.before

\* the last handler was addBan or removeBan with a name that is none of the three
OtherAttr == last.op \in { "addBan", "removeBan" } /\ last.attr \notin Attrs

\* C4, as claimed: addBan and removeBan with another attribute name leave
\* the ban list unchanged, and the ban list has exactly the three keys.
C4_Original ==
    /\ OtherAttr => bans = last.before
    /\ DOMAIN bans = Attrs

\* C4, amended: addBan and removeBan with another attribute name do not
\* fail; they leave the three sets Artist, Culture and Century as they were
\* and store a set under the given name: addBan that set with the value
\* added (nothing at all for the empty string and "N/A"), removeBan that set
\* without the value.
C4_OtherAttributeStored ==
    OtherAttr =>
        /\ \A a \in Attrs : a \in DOMAIN bans /\ bans[a] = last.before[a]
        /\ (last.op = "addBan" /\ last.value \in { Empty, NA }) => bans = last.before
        /\ (last.op = "addBan" /\ last.value \notin { Empty, NA }) =>
              /\ last.attr \in DOMAIN bans
              /\ bans[last.attr] = SetOf(last.before, last.attr) \cup { last.value }
        /\ last.op = "removeBan" =>
              /\ last.attr \in DOMAIN bans
              /\ bans[last.attr] = SetOf(last.before, last.attr) \ { last.value }

\* addBan("Medium", v) gave a non-empty ban list a fourth key
C4_Witness ==
    /\ OtherAttr
    /\ last.op = "addBan"
    /\ last.before # NoBans
    /\ last.attr \notin DOMAIN last.before
    /\ last.attr \in DOMAIN bans
    /\ bans[last.attr] = { last.value }

\* C5: the displayed artwork changes only in a fetch that displays a
\* record, and then all seven fields are those of the picked record; every
\* other handler (a failed or empty fetch, a click without the key, the
\* ban handlers) leaves it as it was.
C5_ViewChangesOnlyOnSuccess ==
    [][ IF last'.op = "fetch" /\ last'.outcome = "shown"
        THEN inputs' = Display(last'.pick[1])
        ELSE inputs' = inputs ]_vars

\* a fetch failed, or found nothing, and the artwork displayed before is
\* still there
C5_Witness ==
    /\ last.op = "fetch"
    /\ last.outcome \in { "failed", "empty" }
    /\ inputs # NoArtwork
    /\ error # ""

\* C6: the Clear Bans button empties all three sets at once; a fetch
\* triggered next holds no bans, keeps every record of its batch, and ends
\* in the empty-result error only when the batch is empty.
C6_ClearThenSelectAll ==
    /\ last.op = "clearBans" => bans = NoBans
    /\ (last.op = "discover" /\ last.after.op = "clearBans") => last.closure = NoBans
    /\ (Resolved /\ last.after.op = "clearBans") =>
        /\ last.eligible = Records
        /\ last.outcome = "empty" <=> Records = << >>

\* a record was displayed that the bans, as they were before the clearing,
\* excluded
C6_Witness ==
    /\ Shown
    /\ last.after.op = "clearBans"
    /\ ~Avoids(last.after.before, last.pick[1])
    /\ Len(Records) = 2

\* the last handler was removeBan for one of the three attributes
Removed == last.op = "removeBan" /\ last.attr \in Attrs

\* C7: removeBan of a value that is not in the set leaves the ban list as
\* it was, removeBan a second time changes nothing more, and removeBan
\* leaves the sets of the other two attributes as they were.
C7_RemoveBanIdempotent ==
    Removed =>
        /\ last.value \notin last.before[last.attr] => bans = last.before
        /\ removeBan(bans, last.attr, last.value) = bans
        /\ \A a \in Attrs \ { last.attr } : bans[a] = last.before[a]
        /\ bans[last.attr] = last.before[last.attr] \ { last.value }

\* removeBan of a value absent from a set that holds another value
C7_Witness ==
    /\ Removed
    /\ last.before[last.attr] # {}
    /\ last.value \notin last.before[last.attr]
    /\ last.value \notin { Empty, NA }
    /\ bans = last.before

\* a field that is missing, empty or made of blanks only
Blank(o) == o = None \/ \A i \in 1..Len(o[1]) : o[1][i] = " "

\* t is s without its leading and trailing blanks
IsTrimOf(t, s) ==
    \E i, j \in 1..Len(s) :
        /\ i <= j
        /\ t = SubSeq(s, i, j)
        /\ s[i] # " " /\ s[j] # " "
        /\ \A k \in 1..Len(s) : (k < i \/ k > j) => s[k] = " "

\* C8, as claimed: each of the six text fields is "N/A" when its source is
\* missing, empty or blank and the source verbatim otherwise; the image is
\* "" when missing or empty and verbatim otherwise.
C8_Original ==
    Shown =>
        LET r == last.pick[1]
            Verbatim(o) == IF Blank(o) THEN NA ELSE o[1]
        IN  /\ inputs.Title = Verbatim(r.title)
            /\ inputs.Artist = Verbatim(FirstName(r))
            /\ inputs.Culture = Verbatim(r.culture)
            /\ inputs.Century = Verbatim(r.century)
            /\ inputs.Date = Verbatim(r.dated)
            /\ inputs.Medium = Verbatim(r.medium)
            /\ inputs.Image = IF r.primaryimageurl \in { None, Some(Empty) }
                              THEN Empty ELSE r.primaryimageurl[1]

\* C8, amended: artist (the name of the first of the people, if any),
\* culture and century are "N/A" when the source is missing, empty or blank,
\* and otherwise the source without its leading and trailing blanks; title,
\* date and medium are "N/A" when the source is missing or empty and
\* otherwise the source verbatim, a blank one included; the image is ""
\* when missing or empty and verbatim otherwise.
C8_Normalization ==
    Shown =>
        LET r == last.pick[1]
            Trimmed(t, o) == IF Blank(o) THEN t = NA ELSE IsTrimOf(t, o[1])
            Kept(o) == IF o \in { None, Some(Empty) } THEN NA ELSE o[1]
        IN  /\ inputs.Title = Kept(r.title)
            /\ Trimmed(inputs.Artist, FirstName(r))
            /\ Trimmed(inputs.Culture, r.culture)
            /\ Trimmed(inputs.Century, r.century)
            /\ inputs.Date = Kept(r.dated)
            /\ inputs.Medium = Kept(r.medium)
            /\ inputs.Image = IF r.primaryimageurl \in { None, Some(Empty) }
                              THEN Empty ELSE r.primaryimageurl[1]

\* a record with a blank title and a padded culture is displayed with the
\* blank title and the culture without its padding
C8_Witness ==
    /\ Shown
    /\ last.pick[1].title = Some(Str(" "))
    /\ inputs.Title = Str(" ")
    /\ last.pick[1].culture = Some(<< " ", "a", " " >>)
    /\ inputs.Culture = Str("a")
    /\ last.pick[1].people = None
    /\ inputs.Artist = NA

\* C9, as claimed: while a fetch is in flight a click on Discover can
\* start a second one.
C9_Original == inflight # << >> => ENABLED ClickDiscover

\* C9, amended: loading is true exactly while a fetch is in flight, and
\* the Discover button is disabled while loading is true; so no second
\* fetch can be triggered while one is in flight, and at most one fetch is
\* in flight at a time.
C9_OneFetchAtATime ==
    /\ Len(inflight) <= 1
    /\ loading <=> inflight # << >>
    /\ inflight # << >> => ~ENABLED ClickDiscover

\* a fetch is in flight, the button is disabled, and the ban handlers run
C9_Witness ==
    /\ Len(inflight) = 1
    /\ loading
    /\ ~DiscoverEnabled
    /\ last.op = "addBan"

\* C10: a fetch holds the bans of the moment it was triggered; it keeps
\* the records that avoid those bans whatever the ban list has become when
\* it resolves, and it leaves the ban list as it is.
C10_FetchUsesBansAtTrigger ==
    /\ last.op = "discover" =>
        /\ last.closure = bans
        /\ inflight[Len(inflight)].bans = bans
    /\ last.op = "fetch" => bans = last.live
    /\ Resolved =>
        /\ last.eligible = SelectSeq(Records, LAMBDA r : Avoids(last.closure, r))
        /\ last.outcome = "empty" <=> last.eligible = << >>
        /\ last.outcome = "shown" =>
              \E k \in 1..Len(last.eligible) : last.pick = Some(last.eligible[k])

\* a record was displayed that a ban added during the fetch excludes
C10_Witness ==
    /\ Shown
    /\ last.live # last.closure
    /\ ~Avoids(last.live, last.pick[1])
    /\ Avoids(last.closure, last.pick[1])

============================================================================
